---- MODULE Spec2Model ----
(***************************************************************************)
(* Session lifecycle engine of @plasius/voice (useWebSpeechEngine), the    *)
(* global voice store it reconciles against, and the stopAndWait teardown  *)
(* helper.  Every action is one JavaScript job: a caller's dispatch with   *)
(* the store subscriptions it fires, a recognizer event with the handlers  *)
(* and promise continuations it runs, a timer, or the coalescing           *)
(* microtask.  Handlers are operators from a job state s to a job state.   *)
(***************************************************************************)
EXTENDS Integers, Sequences, FiniteSets, TLC

VARIABLES store, eng, refs, recs, waits, log, job

vars == <<store, eng, refs, recs, waits, log, job>>

\* ------------------------------------------------------------------ bounds
MaxRec == 2          \* recognizer instances alive at the same time
MaxBatch == 2        \* entries in one result batch
MaxTranscript == 3   \* characters kept in the store transcript
MaxCalls == 3        \* stopAndWaitGeneric calls a caller makes in all

Recs == 1..MaxRec
NoRec == 0

Langs == {"en-GB", "fr-FR"}
Interims == {FALSE}
Devices == {"null", "mic-1"}
Permissions == {"prompt", "denied"}
ErrorCodes == {"not-allowed", "network"}
AllErrorCodes == {"not-allowed", "service-not-allowed", "NotAllowedError", "network"}
StartOutcomes == {"ok", "InvalidStateError", "NotAllowedError"}
Chunks == {<<"a">>, <<" ">>, <<"b">>}
Texts == {<<"a">>}
Modes == {"stop", "abort+stop"}
Signals == {"none", "armed", "aborted"}

\* ------------------------------------------------------------------ text
RECURSIVE Collapse(_)
Collapse(t) ==
  IF Len(t) <= 1 THEN t
  ELSE IF t[1] = " " /\ t[2] = " " THEN Collapse(Tail(t))
  ELSE <<t[1]>> \o Collapse(Tail(t))

RECURSIVE TrimLeft(_)
TrimLeft(t) == IF t # <<>> /\ t[1] = " " THEN TrimLeft(Tail(t)) ELSE t

RECURSIVE TrimRight(_)
TrimRight(t) ==
  IF t # <<>> /\ t[Len(t)] = " " THEN TrimRight(SubSeq(t, 1, Len(t) - 1)) ELSE t

Trim(t) == TrimRight(TrimLeft(t))

\* text.replace(/\s+/g, " ").trim()
Normalize(t) == Trim(Collapse(t))

\* ------------------------------------------------------------------ stores
DefaultStore(l, i, c) ==
  [want |-> FALSE, listening |-> FALSE, lang |-> l, interim |-> i,
   continuous |-> c, partial |-> <<>>, transcript |-> <<>>, muted |-> FALSE,
   deviceId |-> "null", permission |-> "prompt", lastError |-> "none",
   pttEnabled |-> FALSE, pttHold |-> TRUE, pttPressed |-> FALSE,
   pttActive |-> FALSE]

\* case "REQ/STOP"
reqStopCase_EndsSession(st) == [st EXCEPT !.want = FALSE, !.listening = FALSE]

reqStopCase(st) == [st EXCEPT !.want = FALSE]

\* volume, deviceList and pttSource are not kept: no code of the package reads
\* them back
reducer(st, a) ==
  CASE a.type = "INT/SET_CONFIG" ->
         [st EXCEPT !.lang = a.lang, !.interim = a.interim,
                    !.continuous = a.continuous]
    [] a.type = "INT/SET_PERMISSIONS" -> [st EXCEPT !.permission = a.permission]
    [] a.type = "REQ/START" ->
         IF a.payload
         THEN [st EXCEPT !.want = TRUE, !.lastError = "none", !.lang = a.lang,
                         !.interim = a.interim, !.continuous = a.continuous]
         ELSE [st EXCEPT !.want = TRUE, !.lastError = "none"]
    [] a.type = "REQ/STOP" -> reqStopCase(st)
    [] a.type = "EVT/START" -> [st EXCEPT !.listening = TRUE, !.partial = <<>>]
    [] a.type = "EVT/PARTIAL" -> [st EXCEPT !.partial = a.text]
    [] a.type = "EVT/FINAL" ->
         [st EXCEPT !.transcript =
                      Normalize((IF st.transcript # <<>>
                                 THEN st.transcript \o <<" ">> ELSE <<>>)
                                \o Trim(a.text)),
                    !.partial = <<>>]
    [] a.type = "EVT/ERROR" ->
         [st EXCEPT !.lastError = a.error, !.listening = FALSE]
    [] a.type = "EVT/END" -> [st EXCEPT !.listening = FALSE]
    [] a.type = "EVT/DEVICE_CHANGED" -> [st EXCEPT !.deviceId = a.deviceId]
    [] a.type = "EVT/MUTE_CHANGED" -> [st EXCEPT !.muted = a.muted]
    [] a.type = "INT/SET_PTT_CONFIG" ->
         [st EXCEPT !.pttEnabled = IF a.hasEnabled THEN a.pttEnabled ELSE @,
                    !.pttHold = IF a.hasHold THEN a.pttHold ELSE @]
    [] a.type = "EVT/PTT_PRESSED" ->
         [st EXCEPT !.pttPressed = TRUE,
                    !.pttActive = IF st.pttHold THEN TRUE ELSE @]
    [] a.type = "EVT/PTT_RELEASED" ->
         [st EXCEPT !.pttPressed = FALSE,
                    !.pttActive = IF st.pttHold THEN FALSE ELSE @]
    [] a.type = "EVT/PTT_TOGGLE" -> [st EXCEPT !.pttActive = ~@]
    [] OTHER -> st

\* engine-local store.  Session ids are fresh random values: sessionId is
\* kept as the recognizer whose start acknowledgement generated it (that
\* recognizer's __sessionId is the same id until its next acknowledgement),
\* NoRec for null and Gone for the id of a recognizer that no longer exists.
\* startedAt is written together with sessionId; of the timestamp endedAt
\* only whether it has been written is kept.
Gone == -1

EngineInit == [sessionId |-> NoRec, endedAt |-> "undefined", lastError |-> "none"]

engineReducer(e, a) ==
  CASE a.type = "EVT/START" ->
         [e EXCEPT !.sessionId = a.sessionId, !.lastError = "none"]
    [] a.type = "EVT/END" -> [e EXCEPT !.endedAt = "written"]
    [] a.type = "EVT/ERROR" -> [e EXCEPT !.lastError = a.error]
    [] a.type = "INT/RESET" -> EngineInit
    [] OTHER -> e

\* ------------------------------------------------------------------ recognizers
\* rs: "none" not constructed, "new" constructed, "started" start() accepted,
\* "running" start acknowledged (onstart fired), "ended" end event fired
\* tok: the stopTokens entry of the object; settled: the results of the
\* stopAndWaitGeneric promises on it that a caller kept (the engine drops its
\* promises), each with the token of its call
BlankRec ==
  [rs |-> "none", cursor |-> 0, lastInterim |-> <<>>, lastFinal |-> <<>>,
   prevInterim |-> <<"?">>, tok |-> 0, settled |-> <<>>]


\* ------------------------------------------------------------------ job state
\* s.out: what the start() call of this job does (a job makes at most one:
\* the recognizer accepts it or throws); s.stops: the abort()/stop() microtasks queued by stopAndWait;
\* s.thr: the target's stop() throws in this job; s.athr: its abort() throws;
\* s.ovf: the job needed more recognizer instances than MaxRec;
\* s.conts: the promise continuations queued by finish;
\* s.sink: the telemetry sink throws on every call in this job;
\* s.raised: an exception is propagating out of the operation to its caller
Ev(s, k, r, x) ==
  [k |-> k, r |-> r, x |-> x, perm |-> s.store.permission,
   want |-> s.store.want, dev |-> s.store.deviceId, held |-> s.refs.rec]

Note(s, k, r, x) == [s EXCEPT !.log = Append(@, Ev(s, k, r, x))]

\* track(name, props) of @plasius/nfr: the sink returns or throws
track(s, k, r, name) == [Note(s, k, r, name) EXCEPT !.raised = @ \/ s.sink]

\* try { track(...) } catch {}
trackCaught(s, k, r, name) == [track(s, k, r, name) EXCEPT !.raised = s.raised]

\* emit(): track() inside try/catch
emit(s, name, r) == trackCaught(s, "emit", r, name)

\* dispatch of an action whose changed keys (listening, partial, transcript,
\* lastError, permission) have no engine subscription
Put(s, a) == Note([s EXCEPT !.store = reducer(@, a)], "dispatch", NoRec, a.type)

EPut(s, a) ==
  Note([s EXCEPT !.eng = engineReducer(@, a)], "engineDispatch", NoRec, a.type)

FreeRecs(s) == {r \in Recs : s.recs[r].rs = "none"}

NextFree(s) ==
  IF FreeRecs(s) = {} THEN NoRec
  ELSE CHOOSE r \in FreeRecs(s) : \A q \in FreeRecs(s) : r <= q

\* applyConfigTo(r) copies the store's lang, interimResults and continuous
\* onto the recognizer; the engine never reads them back, so the copy is
\* kept as an event of the job
CfgName(st) ==
  <<st.lang, IF st.interim THEN "interim" ELSE "no-interim",
    IF st.continuous THEN "continuous" ELSE "single">>

applyConfigTo(s, r) ==
  Note(s, "config", r, CfgName(s.store)[1] \o "/" \o CfgName(s.store)[3])

attachHandlers(s, r) ==
  [s EXCEPT !.recs[r].cursor = 0, !.recs[r].lastInterim = <<>>,
            !.recs[r].lastFinal = <<>>]

Construct(s, r) ==
  attachHandlers(applyConfigTo(
    Note([s EXCEPT !.recs[r] = [BlankRec EXCEPT !.rs = "new"]], "new", r, ""), r), r)

\* recRef.current = r; the note tells whether the reference was null before
Hold(s, r) ==
  [Note(s, "hold", r, IF s.refs.rec = NoRec THEN "null" ELSE "held") EXCEPT
     !.refs.rec = r]

\* r.start(): the recognizer accepts it or throws synchronously
CallStart(s, r) ==
  IF s.out = "ok" THEN [Note(s, "start", r, s.out) EXCEPT !.recs[r].rs = "started"]
  ELSE Note(s, "start", r, s.out)

Thrown(s) == s.log[Len(s.log)].x

\* String(e) of a thrown DOMException
StringOf(t) == IF t = "NotAllowedError" THEN "NotAllowedError: denied"
               ELSE "InvalidStateError: busy"

IsPermissionCode(c) ==
  c = "not-allowed" \/ c = "service-not-allowed" \/ c = "NotAllowedError"

\* continuation of startWithRecovery after `await stopAndWait(stuck)`
RecoveryFresh_ThirdAttempt(s) ==
  LET caught(s2, fresh) ==
        IF Thrown(s2) = "ok" THEN s2 ELSE CallStart(s2, fresh)
      alive(s0, fresh) ==
        IF s0.refs.disposed THEN s0
        ELSE IF fresh = NoRec THEN [s0 EXCEPT !.ovf = TRUE]
        ELSE caught(CallStart(Hold(Construct(s0, fresh), fresh), fresh), fresh)
  IN alive(Note(s, "resume", NoRec, ""), NextFree(s))

RecoveryFresh(s) ==
  LET caught(s2, fresh) ==
        IF Thrown(s2) = "ok" THEN s2
        ELSE Put(emit(s2, "webspeech:freshstart-error", fresh),
                 [type |-> "EVT/ERROR", error |-> StringOf(Thrown(s2))])
      alive(s0, fresh) ==
        IF s0.refs.disposed THEN s0
        ELSE IF fresh = NoRec THEN [s0 EXCEPT !.ovf = TRUE]
        ELSE caught(CallStart(Hold(Construct(s0, fresh), fresh), fresh), fresh)
  IN alive(Note(s, "resume", NoRec, ""), NextFree(s))

\* finish(result) of the wait w (its end, error or abort listener, its timer,
\* or the catch around stop()): a wait that a newer call on the same target
\* superseded returns at once; otherwise cleanup() detaches its listeners and
\* clears its timer and the promise resolves: a caller that kept the promise
\* sees the result, the continuation of startWithRecovery is queued as a
\* microtask (s.conts), the engine's other waits have no continuation
finish_NoTokenCheck(s, w, reason) ==
  [Note(s, "resolved", w.t, reason) EXCEPT
     !.waits = @ \ {w},
     !.conts = IF w.owner = "recovery" THEN Append(@, w) ELSE @,
     !.recs[w.t].settled =
       IF w.owner = "caller" THEN Append(@, [tok |-> w.tok, reason |-> reason])
       ELSE @]

finish_NoCleanup(s, w, reason) ==
  IF s.recs[w.t].tok # w.tok THEN Note(s, "discarded", w.t, reason)
  ELSE [Note(s, "resolved", w.t, reason) EXCEPT
          !.conts = IF w.owner = "recovery" THEN Append(@, w) ELSE @,
          !.recs[w.t].settled =
            IF w.owner = "caller" THEN Append(@, [tok |-> w.tok, reason |-> reason])
            ELSE @]

finish(s, w, reason) ==
  IF s.recs[w.t].tok # w.tok THEN Note(s, "discarded", w.t, reason)
  ELSE [Note(s, "resolved", w.t, reason) EXCEPT
          !.waits = @ \ {w},
          !.conts = IF w.owner = "recovery" THEN Append(@, w) ELSE @,
          !.recs[w.t].settled =
            IF w.owner = "caller" THEN Append(@, [tok |-> w.tok, reason |-> reason])
            ELSE @]

\* stopAndWaitGeneric(target, {mode, signal}): a new token supersedes the
\* earlier waits on the target; the end and error listeners are attached; a
\* signal that is already aborted finishes the wait at once and returns;
\* otherwise the abort listener is attached, the timer armed and the call of
\* abort() and stop() queued as a microtask.  sig: "none", "armed", "aborted"
stopAndWaitGeneric(s, r, owner, mode, sig) ==
  LET w == [t |-> r, tok |-> s.recs[r].tok + 1, owner |-> owner,
            sig |-> sig = "armed"]
      armed(s1) ==
        [Note(s1, "setTimeout", r, "") EXCEPT
           !.stops = Append(@, [w |-> w, mode |-> mode])]
      listening(s1) ==
        IF sig = "aborted" THEN finish(s1, w, "timeout") ELSE armed(s1)
  IN listening(Note([Note(s, "stopAndWait", r, owner) EXCEPT
                       !.recs[r].tok = w.tok, !.waits = @ \cup {w}],
                    "addEventListener", r, ""))

stopAndWait(s, r, owner) == stopAndWaitGeneric(s, r, owner, "abort+stop", "none")

startWithRecovery_KeepsStuck(s, r) ==
  LET await(s3) ==
        IF s3.refs.rec # NoRec
        THEN stopAndWait(s3, s3.refs.rec, "recovery")
        ELSE RecoveryFresh(s3)
      deny(s2, t) ==
        await(IF IsPermissionCode(t)
              THEN Put(s2, [type |-> "INT/SET_PERMISSIONS", permission |-> "denied"])
              ELSE s2)
      caught(s1, t) ==
        IF t = "ok" THEN s1
        ELSE deny(Put(emit(s1, "webspeech:start-error", r),
                      [type |-> "EVT/ERROR", error |-> StringOf(t)]), t)
      try(s1) == caught(s1, Thrown(s1))
  IN try(CallStart(s, r))

startWithRecovery(s, r) ==
  LET await(s3) ==
        IF s3.refs.rec # NoRec
        THEN stopAndWait([s3 EXCEPT !.refs.rec = NoRec], s3.refs.rec, "recovery")
        ELSE RecoveryFresh(s3)
      deny(s2, t) ==
        await(IF IsPermissionCode(t)
              THEN Put(s2, [type |-> "INT/SET_PERMISSIONS", permission |-> "denied"])
              ELSE s2)
      caught(s1, t) ==
        IF t = "ok" THEN s1
        ELSE deny(Put(emit(s1, "webspeech:start-error", r),
                      [type |-> "EVT/ERROR", error |-> StringOf(t)]), t)
      try(s1) == caught(s1, Thrown(s1))
  IN try(CallStart(s, r))

onWantListeningChange_NoHeldCheck(s) ==
  LET st == s.store
      r == NextFree(s)
  IN IF s.refs.disposed \/ st.muted \/ st.permission = "denied" THEN s
     ELSE IF st.want
          THEN IF r = NoRec THEN [s EXCEPT !.ovf = TRUE]
               ELSE startWithRecovery(Hold(Construct(s, r), r), r)
          ELSE IF s.refs.rec # NoRec
               THEN stopAndWait([s EXCEPT !.refs.rec = NoRec], s.refs.rec, "want")
               ELSE s

onWantListeningChange_WaitsBeforeNull(s) ==
  LET st == s.store
      r == NextFree(s)
  IN IF s.refs.disposed \/ st.muted \/ st.permission = "denied" THEN s
     ELSE IF st.want
          THEN IF s.refs.rec # NoRec THEN s
               ELSE IF r = NoRec THEN [s EXCEPT !.ovf = TRUE]
               ELSE startWithRecovery(Hold(Construct(s, r), r), r)
          ELSE IF s.refs.rec # NoRec
               THEN [stopAndWait(s, s.refs.rec, "want") EXCEPT !.refs.rec = NoRec]
               ELSE s

onWantListeningChange(s) ==
  LET st == s.store
      r == NextFree(s)
  IN IF s.refs.disposed \/ st.muted \/ st.permission = "denied" THEN s
     ELSE IF st.want
          THEN IF s.refs.rec # NoRec THEN s
               ELSE IF r = NoRec THEN [s EXCEPT !.ovf = TRUE]
               ELSE startWithRecovery(Hold(Construct(s, r), r), r)
          ELSE IF s.refs.rec # NoRec
               THEN stopAndWait([s EXCEPT !.refs.rec = NoRec], s.refs.rec, "want")
               ELSE s

\* gStore.dispatch of REQ/START or REQ/STOP: the reducer, then the
\* wantListening key subscription when the value changed
ReqDispatch(s, a) ==
  LET notify(s1) ==
        IF s.refs.subscribed /\ s1.store.want # s.store.want
        THEN onWantListeningChange(s1) ELSE s1
  IN notify(Put(s, a))

reqStart(s) == ReqDispatch(s, [type |-> "REQ/START", payload |-> FALSE])

reqStartCfg(s, cfg) ==
  ReqDispatch(s, [type |-> "REQ/START", payload |-> TRUE, lang |-> cfg.lang,
                  interim |-> cfg.interim, continuous |-> cfg.continuous])

reqStop(s) == ReqDispatch(s, [type |-> "REQ/STOP"])

onCfgChange(s) ==
  IF s.refs.disposed \/ s.refs.cfgScheduled THEN s
  ELSE [s EXCEPT !.refs.cfgScheduled = TRUE]

uDevice(s) ==
  LET st == s.store
  IN IF st.deviceId = "null" THEN reqStop(s)
     ELSE IF st.want
          THEN reqStartCfg(s, [lang |-> st.lang, interim |-> st.interim,
                               continuous |-> st.continuous])
          ELSE s

uMuted(s) == IF s.refs.disposed THEN s ELSE reqStop(s)

\* gStore.dispatch by a caller: the reducer, then the key subscriptions of
\* the keys whose value changed, in subscription order
Dispatch(s, a) ==
  LET old == s.store
      notify(s1, new) ==
        LET want(x) == IF new.want # old.want THEN onWantListeningChange(x) ELSE x
            lang(x) == IF new.lang # old.lang THEN onCfgChange(x) ELSE x
            interim(x) == IF new.interim # old.interim THEN onCfgChange(x) ELSE x
            continuous(x) ==
              IF new.continuous # old.continuous THEN onCfgChange(x) ELSE x
            cfg(x) == continuous(interim(lang(x)))
            device(x) == IF new.deviceId # old.deviceId THEN uDevice(x) ELSE x
            muted(x) == IF new.muted # old.muted THEN uMuted(x) ELSE x
        IN IF s.refs.subscribed THEN muted(device(cfg(want(s1)))) ELSE s1
      reduced(s1) == notify(s1, s1.store)
  IN reduced(Put(s, a))


\* ------------------------------------------------------------------ recognizer events
onSRStart(s, r) ==
  emit(Put(EPut(Note([s EXCEPT !.recs[r].cursor = 0], "newSessionId", r, ""),
                [type |-> "EVT/START", sessionId |-> r]),
           [type |-> "EVT/START"]),
       "webspeech:session-start", r)

onSRError_NoDeny(s, r, error) ==
  emit(Put(EPut(s, [type |-> "EVT/ERROR", error |-> error]),
           [type |-> "EVT/ERROR", error |-> error]),
       "webspeech:session-error", r)

onSRError(s, r, error) ==
  LET fatal(s2) ==
        IF IsPermissionCode(error)
        THEN Put(s2, [type |-> "INT/SET_PERMISSIONS", permission |-> "denied"])
        ELSE s2
  IN emit(fatal(Put(EPut(s, [type |-> "EVT/ERROR", error |-> error]),
                    [type |-> "EVT/ERROR", error |-> error])),
          "webspeech:session-error", r)

onSREnd(s, r) ==
  emit(Put(EPut(s, [type |-> "EVT/END"]), [type |-> "EVT/END"]),
       "webspeech:session-end", r)

\* String(e?.error ?? e).includes("not-allowed")
IncludesNotAllowed(error) == error = "not-allowed" \/ error = "service-not-allowed"

\* r.onerror installed by attachHandlers
onerror(s, r, error) ==
  LET release(s1) ==
        IF IncludesNotAllowed(error) /\ s1.refs.rec = r
        THEN [s1 EXCEPT !.refs.rec = NoRec] ELSE s1
  IN release(onSRError(s, r, error))

\* r.onend installed by attachHandlers
onend_NoHeldCheck(s, r) ==
  LET caught(s2) ==
        IF Thrown(s2) = "ok" THEN s2 ELSE emit(s2, "webspeech:restart-error", r)
      restart(s1) ==
        IF s1.refs.disposed THEN s1
        ELSE IF s1.store.continuous /\ s1.store.want
             THEN caught(CallStart(s1, r))
             ELSE s1
  IN restart(onSREnd(s, r))

onend(s, r) ==
  LET caught(s2) ==
        IF Thrown(s2) = "ok" THEN s2 ELSE emit(s2, "webspeech:restart-error", r)
      restart(s1) ==
        IF s1.refs.disposed THEN s1
        ELSE IF s1.store.continuous /\ s1.store.want /\ s1.refs.rec = r
             THEN caught(CallStart(s1, r))
             ELSE s1
  IN restart(onSREnd(s, r))

\* an end or error event of r reaches the listener of every wait on r, in the
\* order the waits were issued
RECURSIVE Listeners(_, _, _, _)
Listeners(s, r, reason, k) ==
  IF k > s.recs[r].tok THEN s
  ELSE Listeners(IF \E w \in s.waits : w.t = r /\ w.tok = k
                 THEN finish(s, CHOOSE w \in s.waits : w.t = r /\ w.tok = k, reason)
                 ELSE s,
                 r, reason, k + 1)

Finish(s, r, reason) == Listeners(s, r, reason, 1)

\* the timer of the wait w fires: superseded, it returns and nothing of the
\* wait is left to run
timer_Dropped(s, w) == Note([s EXCEPT !.waits = @ \ {w}], "discarded", w.t, "timeout")

timer_NoTokenCheck(s, w) == finish_NoTokenCheck(s, w, "timeout")

timer(s, w) ==
  IF s.recs[w.t].tok # w.tok
  THEN Note([s EXCEPT !.waits = @ \ {w}], "discarded", w.t, "timeout")
  ELSE finish(s, w, "timeout")

\* ------------------------------------------------------------------ result batches
\* a batch: results (entries [isFinal, transcript]) and an optional
\* resultIndex (idx, given when hasIdx); indices are 0-based as in the source
RECURSIVE Concat(_, _, _, _)
Concat(results, i, len, final) ==
  IF i >= len THEN <<>>
  ELSE (IF results[i + 1].isFinal = final THEN results[i + 1].transcript ELSE <<>>)
       \o Concat(results, i + 1, len, final)

extractTexts(rec, ev) ==
  LET len == Len(ev.results)
      cursor == IF len < rec.cursor THEN 0 ELSE rec.cursor
      start == IF ev.hasIdx THEN ev.idx ELSE cursor
  IN [interim |-> Normalize(Concat(ev.results, start, len, FALSE)),
      final |-> Normalize(Concat(ev.results, start, len, TRUE)),
      cursor |-> len,
      consumed |-> cursor,
      start |-> start]

onSRResult_NoDedupe(s, r, ev) ==
  LET final(s1, x) ==
        IF x.final # <<>> /\ x.final # s1.recs[r].lastFinal
        THEN emit(Put([s1 EXCEPT !.recs[r].lastFinal = x.final],
                      [type |-> "EVT/FINAL", text |-> x.final]),
                  "webspeech:session-final", r)
        ELSE s1
      interim(s0, x) ==
        IF x.interim # <<>>
        THEN emit(Put([s0 EXCEPT !.recs[r].lastInterim = x.interim],
                      [type |-> "EVT/PARTIAL", text |-> x.interim]),
                  "webspeech:session-partial", r)
        ELSE s0
      extracted(x) ==
        final(interim(Note(Note([s EXCEPT !.recs[r].cursor = x.cursor,
                                     !.recs[r].prevInterim = x.interim],
                           "batch", r, IF x.interim = s.recs[r].prevInterim
                                       THEN "same-interim" ELSE "other-interim"),
                           "extract", r, IF x.start < x.consumed
                                         THEN "below-cursor" ELSE "from-cursor"),
                      x), x)
  IN extracted(extractTexts(s.recs[r], ev))

\* prevInterim records the interim text the previous batch of r yielded; the
\* "extract" note tells whether the loop of extractTexts began below the cursor
onSRResult(s, r, ev) ==
  LET final(s1, x) ==
        IF x.final # <<>> /\ x.final # s1.recs[r].lastFinal
        THEN emit(Put([s1 EXCEPT !.recs[r].lastFinal = x.final],
                      [type |-> "EVT/FINAL", text |-> x.final]),
                  "webspeech:session-final", r)
        ELSE s1
      interim(s0, x) ==
        IF x.interim # <<>> /\ x.interim # s0.recs[r].lastInterim
        THEN emit(Put([s0 EXCEPT !.recs[r].lastInterim = x.interim],
                      [type |-> "EVT/PARTIAL", text |-> x.interim]),
                  "webspeech:session-partial", r)
        ELSE s0
      extracted(x) ==
        final(interim(Note(Note([s EXCEPT !.recs[r].cursor = x.cursor,
                                     !.recs[r].prevInterim = x.interim],
                           "batch", r, IF x.interim = s.recs[r].prevInterim
                                       THEN "same-interim" ELSE "other-interim"),
                           "extract", r, IF x.start < x.consumed
                                         THEN "below-cursor" ELSE "from-cursor"),
                      x), x)
  IN extracted(extractTexts(s.recs[r], ev))


\* ------------------------------------------------------------------ jobs
Begin(out) ==
  [store |-> store, eng |-> eng, refs |-> refs, recs |-> recs, waits |-> waits,
   log |-> <<>>, out |-> out, stops |-> <<>>, conts |-> <<>>, thr |-> FALSE, athr |-> FALSE,
   ovf |-> FALSE, sink |-> FALSE, raised |-> FALSE,
   hdr |-> job]

\* the microtasks queued by stopAndWait run when the job's code has returned:
\* target.abort() in mode "abort+stop", then target.stop(); a stop() that
\* throws finishes the wait with reason "error"
stopTask(s, m) ==
  LET stopped(s2) == IF s.thr THEN finish(s2, m.w, "error") ELSE s2
      aborted(s1) ==
        stopped(Note(s1, "stop", m.w.t, IF s.thr THEN "throws" ELSE ""))
  IN aborted(IF m.mode = "abort+stop"
             THEN Note(s, "abort", m.w.t, IF s.athr THEN "throws" ELSE "")
             ELSE s)

RECURSIVE RunStops(_)
RunStops(s) ==
  IF s.stops = <<>> THEN s
  ELSE RunStops(stopTask([s EXCEPT !.stops = Tail(@)], Head(s.stops)))

\* a recognizer the engine no longer holds, that is not running and that no
\* pending wait targets receives no further call or event: it is garbage
Unreachable(s, r) ==
  /\ s.recs[r].rs \in {"new", "ended"}
  /\ s.refs.rec # r
  /\ ~\E w \in s.waits : w.t = r /\ w.tok = s.recs[r].tok

Collect(s) ==
  [s EXCEPT !.recs = [r \in Recs |-> IF Unreachable(s, r) THEN BlankRec ELSE @[r]],
            !.waits = {w \in @ : ~Unreachable(s, w.t)},
            !.eng.sessionId = IF @ \in Recs /\ Unreachable(s, @) THEN Gone ELSE @]

\* the continuations of the resolved promises run next
RECURSIVE RunConts(_)
RunConts(s) ==
  IF s.conts = <<>> THEN s
  ELSE RunConts(RecoveryFresh(Collect([s EXCEPT !.conts = Tail(@)])))

\* Recognizer objects have no order: the slots are renumbered so that the
\* held recognizer comes first and free slots last
Key(s, q) ==
  IF s.recs[q].rs = "none" THEN 1000
  ELSE (IF s.refs.rec = q THEN 0 ELSE 500)
       + (CASE s.recs[q].rs = "new" -> 0 [] s.recs[q].rs = "started" -> 100
            [] s.recs[q].rs = "running" -> 200 [] OTHER -> 300)
       + (IF s.recs[q].tok > 0 THEN 50 ELSE 0)
       + (IF \E w \in s.waits : w.t = q /\ w.owner = "want" THEN 10
          ELSE IF \E w \in s.waits : w.t = q /\ w.owner = "recovery" THEN 20
          ELSE IF \E w \in s.waits : w.t = q /\ w.owner = "dispose" THEN 30 ELSE 0)
       + (IF s.eng.sessionId = q THEN 1 ELSE 0)

Rank(k) ==
  [q \in Recs |->
     1 + Cardinality({u \in Recs : k[u] < k[q] \/ (k[u] = k[q] /\ u < q)})]

Slot(s) == Rank([q \in Recs |-> Key(s, q)])

Rename(s, p) ==
  LET at(r) == IF r \in Recs THEN p[r] ELSE r
  IN IF \A q \in Recs : p[q] = q THEN s
     ELSE
     [s EXCEPT !.recs = [n \in Recs |-> s.recs[CHOOSE q \in Recs : p[q] = n]],
               !.refs.rec = at(@),
               !.eng.sessionId = at(@),
               !.waits = {[w EXCEPT !.t = at(@)] : w \in @},
               !.log = [i \in DOMAIN @ |-> [@[i] EXCEPT !.r = at(@), !.held = at(@)]],
               !.hdr = [@ EXCEPT !.r = at(@), !.held = at(@)]]

Renumber(s) == Rename(s, Slot(s))

\* what the job started from, kept for the properties
Header(op, r, x) ==
  [op |-> op, r |-> r, x |-> x, held |-> refs.rec, want |-> store.want,
   listening |-> store.listening]

\* a job that changes nothing of the program leaves no trace
Quiet(s) ==
  /\ s.store = store
  /\ s.eng = eng
  /\ s.refs = refs
  /\ s.recs = recs
  /\ s.waits = waits

Record(e) ==
  /\ store' = e.store
  /\ eng' = e.eng
  /\ refs' = e.refs
  /\ recs' = e.recs
  /\ waits' = e.waits
  /\ log' = e.log
  /\ job' = e.hdr

StartCalled(s) == \E i \in DOMAIN s.log : s.log[i].k = "start"

\* the outcome of start() is an input of the job only when the job calls it
Commit(op, r, x, s) ==
  \E e \in {Collect(RunConts(RunStops([s EXCEPT !.hdr = Header(op, r, x)])))} :
    /\ e.out = "ok" \/ StartCalled(e)
    /\ ~e.ovf
    /\ IF Quiet(e) /\ op # "onresult" THEN UNCHANGED vars
       ELSE \E c \in {Renumber(e)} : Record(c)

Outs == StartOutcomes

\* a job of the engine whose start() call, if it makes one, has the outcome o
Job(op, r, x, o, s) == s.out = o /\ Commit(op, r, x, s)

\* macrotasks (events, timers) run only when no microtask is pending
Idle == ~refs.cfgScheduled

\* ------------------------------------------------------------------ caller actions
\* api.start() / dispatch REQ/START
Start ==
  \E o \in Outs :
    Job("start", NoRec, "", o,
        Dispatch(Begin(o), [type |-> "REQ/START", payload |-> FALSE]))

\* api.stop() / dispatch REQ/STOP
Stop == Job("stop", NoRec, "", "ok", Dispatch(Begin("ok"), [type |-> "REQ/STOP"]))

\* effect 1 (options changed) or any INT/SET_CONFIG dispatch
SetConfig ==
  \E l \in Langs, i \in Interims, c \in BOOLEAN :
    Job("config", NoRec, l, "ok",
        Dispatch(Begin("ok"), [type |-> "INT/SET_CONFIG", lang |-> l,
                               interim |-> i, continuous |-> c]))

MuteChanged ==
  \E m \in BOOLEAN, o \in Outs :
    Job("mute", NoRec, IF m THEN "muted" ELSE "unmuted", o,
        Dispatch(Begin(o), [type |-> "EVT/MUTE_CHANGED", muted |-> m]))

\* a device is selected, or the device watcher finds the current one gone
DeviceChanged ==
  \E d \in Devices, o \in Outs :
    Job("device", NoRec, d, o,
        Dispatch(Begin(o), [type |-> "EVT/DEVICE_CHANGED", deviceId |-> d]))

\* the permissions probe answers, or an external action sets the permission
SetPermission ==
  \E p \in Permissions :
    Job("permission", NoRec, p, "ok",
        Dispatch(Begin("ok"), [type |-> "INT/SET_PERMISSIONS", permission |-> p]))

\* the microtask scheduled by onCfgChange
cfgTask(s) ==
  LET st == s.store
      cfg == [lang |-> st.lang, interim |-> st.interim, continuous |-> st.continuous]
  IN IF s.refs.disposed THEN s
     ELSE IF st.listening THEN reqStartCfg(reqStop(s), cfg)
     ELSE IF st.want THEN reqStartCfg(s, cfg)
     ELSE s

CfgMicrotask ==
  /\ refs.cfgScheduled
  /\ \E o \in Outs :
       Job("cfg", NoRec, "", o, cfgTask([Begin(o) EXCEPT !.refs.cfgScheduled = FALSE]))

apiDispose_KeepsRecognizer(s) ==
  LET teardown(s1, current) ==
        IF current # NoRec THEN stopAndWait(s1, current, "dispose") ELSE s1
      stopped(s1) ==
        teardown([EPut(IF s1.refs.rec # NoRec
                       THEN trackCaught([s1 EXCEPT !.refs.disposed = TRUE],
                                        "track", s1.refs.rec, "webspeech:dispose")
                       ELSE [s1 EXCEPT !.refs.disposed = TRUE],
                       [type |-> "INT/RESET"])
                   EXCEPT !.refs.subscribed = FALSE],
                 s1.refs.rec)
  IN stopped(reqStop(s))

apiDispose(s) ==
  LET teardown(s1, current) ==
        IF current # NoRec THEN stopAndWait(s1, current, "dispose") ELSE s1
      stopped(s1) ==
        teardown([EPut([(IF s1.refs.rec # NoRec
                          THEN trackCaught([s1 EXCEPT !.refs.disposed = TRUE],
                                           "track", s1.refs.rec, "webspeech:dispose")
                          ELSE [s1 EXCEPT !.refs.disposed = TRUE])
                          EXCEPT !.refs.rec = NoRec],
                       [type |-> "INT/RESET"])
                   EXCEPT !.refs.subscribed = FALSE],
                 s1.refs.rec)
  IN stopped(reqStop(s))

dispose == \E o \in Outs : Job("dispose", NoRec, "", o, apiDispose(Begin(o)))

\* reset(): the track() call is not inside a try
apiReset(s) == track([s EXCEPT !.refs.disposed = FALSE], "track", NoRec, "webspeech:reset")

reset == Job("reset", NoRec, "", "ok", apiReset(Begin("ok")))

\* unmount: the effect cleanups mark the engine disposed and unsubscribe
Unmount ==
  /\ refs.mounted
  /\ Job("unmount", NoRec, "", "ok",
         [Begin("ok") EXCEPT !.refs.disposed = TRUE, !.refs.subscribed = FALSE,
                             !.refs.mounted = FALSE])

\* ------------------------------------------------------------------ recognizer actions
SRStart ==
  /\ Idle
  /\ \E r \in Recs :
       /\ recs[r].rs = "started"
       /\ Job("onstart", r, "", "ok",
              onSRStart([Begin("ok") EXCEPT !.recs[r].rs = "running"], r))

SRError ==
  /\ Idle
  /\ \E r \in Recs, c \in ErrorCodes, o \in Outs :
       /\ recs[r].rs \in {"started", "running"}
       /\ Job("onerror", r, c, o, Finish(onerror(Begin(o), r, c), r, "error"))

\* an error event with any of the codes the engine tells apart
SRErrorAny ==
  /\ Idle
  /\ \E r \in Recs, c \in AllErrorCodes, o \in Outs :
       /\ recs[r].rs \in {"started", "running"}
       /\ Job("onerror", r, c, o, Finish(onerror(Begin(o), r, c), r, "error"))

SREnd ==
  /\ Idle
  /\ \E r \in Recs, o \in Outs :
       /\ recs[r].rs \in {"started", "running"}
       /\ Job("onend", r, "", o,
              Finish(onend([Begin(o) EXCEPT !.recs[r].rs = "ended"], r), r, "end"))

Timeout ==
  /\ Idle
  /\ \E w \in waits, o \in Outs :
       Job("timeout", w.t, "", o, timer(Begin(o), w))

Batches ==
  UNION {[1..n -> [isFinal : BOOLEAN, transcript : Chunks]] : n \in 0..MaxBatch}

SRResult ==
  /\ Idle
  /\ \E r \in Recs :
       /\ recs[r].rs = "running"
       /\ \E b \in Batches, h \in BOOLEAN, i \in 0..MaxBatch :
            /\ i <= Len(b)
            /\ h \/ i = 0
            /\ \E s1 \in {onSRResult(Begin("ok"), r, [results |-> b, hasIdx |-> h,
                                                        idx |-> i])} :
                 /\ Len(s1.store.transcript) <= MaxTranscript
                 /\ Job("onresult", r, "", "ok", s1)

\* ------------------------------------------------------------------ specification
Init ==
  /\ \E c \in BOOLEAN : store = DefaultStore("en-GB", FALSE, c)
  /\ eng = EngineInit
  /\ refs = [rec |-> NoRec, disposed |-> FALSE, subscribed |-> TRUE,
             cfgScheduled |-> FALSE, mounted |-> TRUE]
  /\ recs = [r \in Recs |-> BlankRec]
  /\ waits = {}
  /\ log = <<>>
  /\ job = [op |-> "mount", r |-> NoRec, x |-> "", held |-> NoRec, want |-> FALSE,
            listening |-> FALSE]

\* wantListening toggles, recognizer events and teardown timeouts
Next ==
  \/ Start
  \/ Stop
  \/ SRStart
  \/ SRError
  \/ SREnd
  \/ Timeout

Spec == Init /\ [][Next]_vars

\* ... with recognizers that acknowledge their start and then stay silent,
\* and stop requests that are made while listening is true
NextSilent ==
  \/ Start
  \/ store.listening /\ Stop
  \/ SRStart
  \/ Timeout

SpecSilent == Init /\ [][NextSilent]_vars

\* ... with the mute gate
NextMute ==
  \/ Start
  \/ Stop
  \/ MuteChanged
  \/ SRStart
  \/ SRError
  \/ SREnd
  \/ Timeout

SpecMute == Init /\ [][NextMute]_vars

\* ... with the mute and device gates
NextGate ==
  \/ Start
  \/ Stop
  \/ MuteChanged
  \/ DeviceChanged
  \/ SRStart
  \/ SRError
  \/ SREnd
  \/ Timeout

SpecGate == Init /\ [][NextGate]_vars

\* ... with the engine's own lifecycle
NextLifecycle ==
  \/ Start
  \/ Stop
  \/ dispose
  \/ reset
  \/ Unmount
  \/ SRStart
  \/ SRError
  \/ SREnd
  \/ Timeout

SpecLifecycle == Init /\ [][NextLifecycle]_vars

\* ... with every class of recognizer error
NextError ==
  \/ Start
  \/ Stop
  \/ SRStart
  \/ SRErrorAny
  \/ SREnd
  \/ Timeout

SpecError == Init /\ [][NextError]_vars

\* ... with configuration changes and their coalescing microtask
NextConfig ==
  \/ Start
  \/ Stop
  \/ SetConfig
  \/ CfgMicrotask
  \/ SRStart
  \/ SRError
  \/ SREnd
  \/ Timeout

SpecConfig == Init /\ [][NextConfig]_vars

\* one recognizer, its sessions and its result batches
NextText ==
  \/ Start
  \/ SRStart
  \/ SRResult
  \/ SREnd

SpecText == Init /\ [][NextText]_vars

\* ------------------------------------------------------------------ a telemetry sink that throws
\* every operation is run with a sink that throws on every call; next to it
\* the same operation is run with a sink that returns, and the job records
\* whether the operation returned to its caller or threw, and whether the two
\* runs leave the same stores, references, recognizers and waits
Loud(o) == [Begin(o) EXCEPT !.sink = TRUE]

Settle(s) == RunConts(RunStops(s))

SameState(a, b) ==
  /\ a.store = b.store
  /\ a.eng = b.eng
  /\ a.refs = b.refs
  /\ a.recs = b.recs
  /\ a.waits = b.waits

Verdict(quiet, loud) ==
  Note(loud, IF loud.raised THEN "throws" ELSE "returns", NoRec,
       IF SameState(Settle(quiet), Settle(loud)) THEN "same" ELSE "differs")

SinkJob(op, r, x, o, H(_)) == Job(op, r, x, o, Verdict(H(Begin(o)), H(Loud(o))))

\* the api object is used by the component that mounted the engine
SinkStart ==
  /\ refs.mounted
  /\ \E o \in Outs :
       SinkJob("start", NoRec, "", o,
               LAMBDA s : Dispatch(s, [type |-> "REQ/START", payload |-> FALSE]))

SinkStop ==
  /\ refs.mounted
  /\ SinkJob("stop", NoRec, "", "ok", LAMBDA s : Dispatch(s, [type |-> "REQ/STOP"]))

SinkDispose ==
  /\ refs.mounted
  /\ \E o \in Outs : SinkJob("dispose", NoRec, "", o, apiDispose)

SinkReset ==
  /\ refs.mounted
  /\ SinkJob("reset", NoRec, "", "ok", apiReset)

SinkSRStart ==
  \E r \in Recs :
    /\ recs[r].rs = "started"
    /\ SinkJob("onstart", r, "", "ok",
               LAMBDA s : onSRStart([s EXCEPT !.recs[r].rs = "running"], r))

SinkSRError ==
  \E r \in Recs, c \in ErrorCodes, o \in Outs :
    /\ recs[r].rs \in {"started", "running"}
    /\ SinkJob("onerror", r, c, o, LAMBDA s : Finish(onerror(s, r, c), r, "error"))

SinkSREnd ==
  \E r \in Recs, o \in Outs :
    /\ recs[r].rs \in {"started", "running"}
    /\ SinkJob("onend", r, "", o,
               LAMBDA s : Finish(onend([s EXCEPT !.recs[r].rs = "ended"], r), r, "end"))

SinkTimeout ==
  \E w \in waits, o \in Outs :
    SinkJob("timeout", w.t, "", o, LAMBDA s : timer(s, w))

NextSink ==
  \/ SinkStart
  \/ SinkStop
  \/ SinkDispose
  \/ SinkReset
  \/ SinkSRStart
  \/ SinkSRError
  \/ SinkSREnd
  \/ SinkTimeout

SpecSink == Init /\ [][NextSink]_vars

\* ------------------------------------------------------------------ useVoiceIntents
\* the hook has rendered and its effects have not run yet: the first effect
\* creates the engine (the state of Init), the second one, "auto-start on
\* mount", calls engine.start() whatever the options are.  autoStart is the
\* option the caller passed (FALSE when it passed none)
autoStartEffect ==
  /\ job.op = "render"
  /\ \E autoStart \in BOOLEAN, o \in Outs :
       Job("mount", NoRec, IF autoStart THEN "autoStart" ELSE "default", o,
           Dispatch(Begin(o), [type |-> "REQ/START", payload |-> FALSE]))

InitHook ==
  /\ \E c \in BOOLEAN : store = DefaultStore("en-GB", FALSE, c)
  /\ eng = EngineInit
  /\ refs = [rec |-> NoRec, disposed |-> FALSE, subscribed |-> TRUE,
             cfgScheduled |-> FALSE, mounted |-> TRUE]
  /\ recs = [r \in Recs |-> BlankRec]
  /\ waits = {}
  /\ log = <<>>
  /\ job = [op |-> "render", r |-> NoRec, x |-> "", held |-> NoRec, want |-> FALSE,
            listening |-> FALSE]

\* the caller and the recognizers act once the hook is mounted
NextHook ==
  \/ autoStartEffect
  \/ job.op # "render" /\ Start
  \/ job.op # "render" /\ Stop
  \/ job.op # "render" /\ SRStart
  \/ job.op # "render" /\ SRError
  \/ job.op # "render" /\ SREnd
  \/ job.op # "render" /\ Timeout

SpecHook == InitHook /\ [][NextHook]_vars

\* ------------------------------------------------------------------ useVoiceControl
\* the dispatches a control function makes, in order.  when: "always"; "wanted"
\* for a dispatch made only if the store's wantListening is true at that point;
\* "byPtt" for `pttActive ? REQ/START : REQ/STOP` read at that point
Always(a) == [when |-> "always", a |-> a]

ReqStart == [type |-> "REQ/START", payload |-> FALSE]

ReqStop == [type |-> "REQ/STOP"]

ActionOf(s, c) ==
  CASE c.when = "wanted" -> IF s.store.want THEN c.a ELSE [type |-> "none"]
    [] c.when = "byPtt" -> IF s.store.pttActive THEN ReqStart ELSE ReqStop
    [] OTHER -> c.a

RECURSIVE dispatchAll(_, _)
dispatchAll(s, prog) ==
  IF prog = <<>> THEN s
  ELSE IF ActionOf(s, Head(prog)).type = "none" THEN dispatchAll(s, Tail(prog))
  ELSE dispatchAll(Dispatch(s, ActionOf(s, Head(prog))), Tail(prog))

\* setMuted(value): nothing when the value is the current one; otherwise
\* EVT/MUTE_CHANGED, then REQ/STOP when muting, or REQ/START when unmuting
\* with wantListening true, then the telemetry call inside a try
setMuted_NoStop(s, value) ==
  IF s.store.muted = value THEN s
  ELSE trackCaught(
         dispatchAll(s, <<Always([type |-> "EVT/MUTE_CHANGED", muted |-> value])>>),
         "track", NoRec, "voice:set-mute")

setMuted(s, value) ==
  IF s.store.muted = value THEN s
  ELSE trackCaught(
         dispatchAll(s, <<Always([type |-> "EVT/MUTE_CHANGED", muted |-> value]),
                          IF value THEN Always(ReqStop)
                          ELSE [when |-> "wanted", a |-> ReqStart]>>),
         "track", NoRec, "voice:set-mute")

\* the control api is used by the component that mounted the hook
SetMuted ==
  /\ refs.mounted
  /\ \E m \in BOOLEAN, o \in Outs :
       Job("setMuted", NoRec, IF m THEN "muted" ELSE "unmuted", o,
           setMuted(Begin(o), m))

\* the dispatches of a press: hold mode presses and requests a start; toggle
\* mode normalises the press edge, toggles and requests what pttActive says
PressProg(hold) ==
  IF hold THEN <<Always([type |-> "EVT/PTT_PRESSED"]), Always(ReqStart)>>
  ELSE <<Always([type |-> "EVT/PTT_PRESSED"]), Always([type |-> "EVT/PTT_RELEASED"]),
         Always([type |-> "EVT/PTT_TOGGLE"]), [when |-> "byPtt"]>>

ReleaseProg(hold) ==
  IF hold THEN <<Always([type |-> "EVT/PTT_RELEASED"]), Always(ReqStop)>> ELSE <<>>

ToggleProg == <<Always([type |-> "EVT/PTT_TOGGLE"]), [when |-> "byPtt"]>>

\* pttButton(action): action is "press", "release", "toggle" or "omitted"
pttButton_KeepsWantOnRelease(s, action) ==
  LET hold == s.store.pttHold
      act == IF action # "omitted" THEN action
             ELSE IF hold THEN "press" ELSE "toggle"
  IN IF ~s.store.pttEnabled THEN s
     ELSE dispatchAll(s, CASE act = "press" -> PressProg(hold)
                           [] act = "release" ->
                                IF hold THEN <<Always([type |-> "EVT/PTT_RELEASED"])>>
                                ELSE <<>>
                           [] OTHER -> ToggleProg)

pttButton(s, action) ==
  LET hold == s.store.pttHold
      act == IF action # "omitted" THEN action
             ELSE IF hold THEN "press" ELSE "toggle"
  IN IF ~s.store.pttEnabled THEN s
     ELSE dispatchAll(s, CASE act = "press" -> PressProg(hold)
                           [] act = "release" -> ReleaseProg(hold)
                           [] OTHER -> ToggleProg)

\* onKeyDown / onMouseDown / onTouchStart of the global listeners (a key
\* that is not auto-repeating, a PTT key code, the PTT mouse button)
onDown(s) ==
  IF ~s.store.pttEnabled THEN s ELSE dispatchAll(s, PressProg(s.store.pttHold))

\* onKeyUp / onMouseUp / onTouchEnd
onUp(s) ==
  IF ~s.store.pttEnabled THEN s ELSE dispatchAll(s, ReleaseProg(s.store.pttHold))

\* setPTTButton({enabled, mode}): enabled is "unset", "true" or "false", mode is
\* "unset", "hold" or "toggle"; no dispatch when both are unset
setPTTButton(s, enabled, mode) ==
  IF enabled = "unset" /\ mode = "unset" THEN s
  ELSE Put(s, [type |-> "INT/SET_PTT_CONFIG", hasEnabled |-> enabled # "unset",
               pttEnabled |-> enabled = "true", hasHold |-> mode # "unset",
               pttHold |-> mode = "hold"])

PttButton ==
  /\ refs.mounted
  /\ \E action \in {"press", "release", "toggle", "omitted"}, o \in Outs :
       Job("pttButton", NoRec, action, o, pttButton(Begin(o), action))

PttDown ==
  /\ refs.mounted
  /\ \E o \in Outs : Job("pttDown", NoRec, "", o, onDown(Begin(o)))

PttUp ==
  /\ refs.mounted
  /\ \E o \in Outs : Job("pttUp", NoRec, "", o, onUp(Begin(o)))

SetPTTButton ==
  /\ refs.mounted
  /\ \E enabled \in {"unset", "true", "false"}, mode \in {"unset", "hold", "toggle"} :
       Job("setPTTButton", NoRec, mode, "ok", setPTTButton(Begin("ok"), enabled, mode))

\* push-to-talk inputs next to the caller's start and stop and the recognizer
NextPTT ==
  \/ PttButton
  \/ PttDown
  \/ PttUp
  \/ SetPTTButton
  \/ Start
  \/ Stop
  \/ SRStart
  \/ SREnd

SpecPTT == Init /\ [][NextPTT]_vars

\* the control hook's setMuted next to the engine's start, stop and dispose
NextControl ==
  \/ Start
  \/ Stop
  \/ SetMuted
  \/ dispose
  \/ SRStart
  \/ SRError
  \/ SREnd
  \/ Timeout

SpecControl == Init /\ [][NextControl]_vars

\* ------------------------------------------------------------------ the intent registry
\* intentRegistry maps an origin ("*" is the global one) to a list of
\* registered intents [name, pattern, ret]: pattern is the phrase of the
\* intent's patterns ("none" when it has none) and ret is what its handler
\* returns, a value or a promise of it ("undefined" when it returns nothing).
\* A transcript is one of Utterances and a phrase matches the transcript that
\* contains it.
Keys == {"shop", "*"}

Origins == {"undefined", "shop"}

IntentNames == {"cart.addItem", "open.menu"}

Phrases == {"add to cart", "open menu"}

Utterances == Phrases \cup {"hello"}

Returns == {"success", "undefined"}

RegisteredIntent == [name : IntentNames, pattern : Phrases \cup {"none"}, ret : Returns]

IndexOf(list, name) ==
  IF \E k \in DOMAIN list : list[k].name = name
  THEN CHOOSE k \in DOMAIN list :
         list[k].name = name /\ \A j \in DOMAIN list : list[j].name = name => k <= j
  ELSE 0

\* byName.set(i.name, i): a Map keeps the place of a key it already has
RECURSIVE byNameSet(_, _)
byNameSet(list, intents) ==
  IF intents = <<>> THEN list
  ELSE byNameSet(IF IndexOf(list, Head(intents).name) # 0
                 THEN [list EXCEPT ![IndexOf(list, Head(intents).name)] = Head(intents)]
                 ELSE Append(list, Head(intents)),
                 Tail(intents))

registerVoiceIntents(registry, origin, intents) ==
  [registry EXCEPT ![origin] = byNameSet(@, intents)]

unregisterVoiceIntents(registry, origin, names) ==
  IF names = {} THEN [registry EXCEPT ![origin] = <<>>]
  ELSE [registry EXCEPT ![origin] = SelectSeq(@, LAMBDA i : i.name \notin names)]

\* intentRegistry.get(origin) for an origin that may be undefined or unknown
Get(registry, origin) == IF origin \in DOMAIN registry THEN registry[origin] ELSE <<>>

\* testList: the first intent of the list one of whose patterns matches
RECURSIVE testList(_, _)
testList(list, text) ==
  IF list = <<>> THEN "null"
  ELSE IF Head(list).pattern = text THEN Head(list).name
  ELSE testList(Tail(list), text)

resolveRegisteredIntent(registry, text, origin) ==
  IF testList(Get(registry, origin), text) # "null"
  THEN testList(Get(registry, origin), text)
  ELSE testList(Get(registry, "*"), text)

defaultInferIntent(text) ==
  CASE text = "open menu" -> "open.menu"
    [] text = "add to cart" -> "cart.addItem"
    [] OTHER -> "no.intent"

inferIntent(registry, text, origin) ==
  IF resolveRegisteredIntent(registry, text, origin) # "null"
  THEN resolveRegisteredIntent(registry, text, origin)
  ELSE defaultInferIntent(text)

\* the lists runRegistered goes through: the origin's, if the hook has an
\* origin, then the global one
Lists(origin) == IF origin = "undefined" THEN <<"*">> ELSE <<origin, "*">>

\* runRegistered: the handler of the first list that has the inferred name is
\* called and its result returned
RECURSIVE runRegistered(_, _, _)
runRegistered(s, lists, name) ==
  IF lists = <<>> THEN [s EXCEPT !.out = "undefined"]
  ELSE IF IndexOf(s.refs.registry[Head(lists)], name) # 0
  THEN [Note(s, "handler", NoRec, Head(lists)) EXCEPT
          !.out = s.refs.registry[Head(lists)][IndexOf(s.refs.registry[Head(lists)],
                                                       name)].ret]
  ELSE runRegistered(s, Tail(lists), name)

\* the store listener of useVoiceIntents on a transcript it has not processed:
\* the intent is inferred and tracked, a registered handler runs, and activate
\* is called when the registry returned undefined; s.out is the value the
\* activation resolves with
processFinal(s, text) ==
  LET name == inferIntent(s.refs.registry, text, s.refs.origin)
      tracked == Note(Note([s EXCEPT !.refs.prevFinal = text], "final", NoRec, text),
                      "intent", NoRec, name)
      registered == runRegistered(tracked, Lists(s.refs.origin), name)
  IN IF registered.out = "undefined" /\ s.refs.activate
     THEN Note(registered, "activate", NoRec, name)
     ELSE registered

IntentJob(op, x, s) == Record([s EXCEPT !.hdr = Header(op, NoRec, x)])

RegisterVoiceIntents ==
  \E origin \in Keys, i \in RegisteredIntent :
    /\ origin \in DOMAIN refs.registry
    /\ IntentJob("register", origin,
                 [Begin("ok") EXCEPT
                    !.refs.registry = registerVoiceIntents(@, origin, <<i>>)])

UnregisterVoiceIntents ==
  \E origin \in Keys, names \in SUBSET IntentNames :
    /\ refs.registry[origin] # <<>>
    /\ IntentJob("unregister", origin,
                 [Begin("ok") EXCEPT
                    !.refs.registry = unregisterVoiceIntents(@, origin, names)])

FinalTranscript ==
  \E text \in Utterances :
    /\ text # refs.prevFinal
    /\ IntentJob("final", text, processFinal(Begin("ok"), text))

InitIntents ==
  /\ store = DefaultStore("en-GB", FALSE, FALSE)
  /\ eng = EngineInit
  /\ \E origin \in Origins, activate \in BOOLEAN :
       refs = [rec |-> NoRec, mounted |-> FALSE, registry |-> [k \in Keys |-> <<>>],
               origin |-> origin, activate |-> activate, prevFinal |-> ""]
  /\ recs = [r \in Recs |-> BlankRec]
  /\ waits = {}
  /\ log = <<>>
  /\ job = [op |-> "render", r |-> NoRec, x |-> "", held |-> NoRec, want |-> FALSE,
            listening |-> FALSE]

NextIntents ==
  \/ RegisterVoiceIntents
  \/ UnregisterVoiceIntents
  \/ FinalTranscript

SpecIntents == InitIntents /\ [][NextIntents]_vars

\* ------------------------------------------------------------------ the global store on its own
\* createGlobalVoiceStore() with no engine subscribed: dispatch runs the
\* reducer on the action; the job header keeps the action type and the
\* wantListening and listening of the state the action was dispatched in
\* (refs.mounted is false: no engine uses this store)
storeDispatch(a) ==
  /\ store' = reducer(store, a)
  /\ Len(store'.transcript) <= MaxTranscript
  /\ job' = Header(a.type, NoRec, "")
  /\ log' = <<>>
  /\ UNCHANGED <<eng, refs, recs, waits>>

dispatchREQ ==
  /\ ~refs.mounted
  /\ \/ storeDispatch([type |-> "REQ/START", payload |-> FALSE])
     \/ \E l \in Langs, i \in Interims, c \in BOOLEAN :
          storeDispatch([type |-> "REQ/START", payload |-> TRUE, lang |-> l,
                         interim |-> i, continuous |-> c])
     \/ storeDispatch([type |-> "REQ/STOP"])

dispatchINT ==
  /\ ~refs.mounted
  /\ \/ \E l \in Langs, i \in Interims, c \in BOOLEAN :
          storeDispatch([type |-> "INT/SET_CONFIG", lang |-> l, interim |-> i,
                         continuous |-> c])
     \/ \E p \in Permissions :
          storeDispatch([type |-> "INT/SET_PERMISSIONS", permission |-> p])
     \/ storeDispatch([type |-> "INT/SET_VOLUME"])
     \/ \E he, e, hh, h \in BOOLEAN :
          storeDispatch([type |-> "INT/SET_PTT_CONFIG", hasEnabled |-> he,
                         pttEnabled |-> e, hasHold |-> hh, pttHold |-> h])

dispatchEVT ==
  /\ ~refs.mounted
  /\ \/ storeDispatch([type |-> "EVT/START"])
     \/ \E x \in Texts : storeDispatch([type |-> "EVT/PARTIAL", text |-> x])
     \/ \E x \in Texts : storeDispatch([type |-> "EVT/FINAL", text |-> x])
     \/ \E c \in ErrorCodes : storeDispatch([type |-> "EVT/ERROR", error |-> c])
     \/ storeDispatch([type |-> "EVT/END"])
     \/ \E d \in Devices :
          storeDispatch([type |-> "EVT/DEVICE_CHANGED", deviceId |-> d])
     \/ \E m \in BOOLEAN : storeDispatch([type |-> "EVT/MUTE_CHANGED", muted |-> m])
     \/ storeDispatch([type |-> "EVT/DEVICE_LIST_CHANGED"])

dispatchPTT ==
  /\ ~refs.mounted
  /\ \/ storeDispatch([type |-> "EVT/PTT_PRESSED"])
     \/ storeDispatch([type |-> "EVT/PTT_RELEASED"])
     \/ storeDispatch([type |-> "EVT/PTT_TOGGLE"])

InitStore ==
  /\ store = DefaultStore("en-GB", FALSE, FALSE)
  /\ eng = EngineInit
  /\ refs = [rec |-> NoRec, disposed |-> FALSE, subscribed |-> FALSE,
             cfgScheduled |-> FALSE, mounted |-> FALSE]
  /\ recs = [r \in Recs |-> BlankRec]
  /\ waits = {}
  /\ log = <<>>
  /\ job = [op |-> "create", r |-> NoRec, x |-> "", held |-> NoRec, want |-> FALSE,
            listening |-> FALSE]

NextStore ==
  \/ dispatchREQ
  \/ dispatchINT
  \/ dispatchEVT
  \/ dispatchPTT

SpecStore == InitStore /\ [][NextStore]_vars

\* ------------------------------------------------------------------ createWebSpeechEngine (legacy)
\* the closure holds rec (refs.rec) and the watchdog timer (refs.watchdog: a
\* timer is pending).  Recognizers follow the capability contract: start()
\* is accepted or throws, abort() and stop() return; a recognizer on which
\* abort() or stop() was called while it was started is "stopping" and may
\* still emit error and end events; one that emitted an error before any
\* start event is "failed".  The caller's handlers h are noted only.
Invoke(s, r, method) ==
  [Note(s, method, r, "") EXCEPT
     !.recs[r].rs = IF @ \in {"started", "running", "failed"} THEN "stopping" ELSE @]

\* withCurrent((r) => { r.abort?.(); r.stop?.(); })
abortAndStop(s) ==
  IF s.refs.rec = NoRec THEN s
  ELSE Invoke(Invoke(s, s.refs.rec, "abort"), s.refs.rec, "stop")

clearWatchdog(s) == [s EXCEPT !.refs.watchdog = FALSE]

\* rec = new SR(); attach(rec, h)
newRec(s, r) ==
  Note([s EXCEPT !.recs[r] = [BlankRec EXCEPT !.rs = "new"], !.refs.rec = r],
       "new", r, "")

\* rec.start() with the outcome o
tryStart(s, o) ==
  IF o = "ok"
  THEN [Note(s, "start", s.refs.rec, o) EXCEPT !.recs[s.refs.rec].rs = "started"]
  ELSE Note(s, "start", s.refs.rec, o)

\* the catch of start(): abort() on the instance whose start() threw, which
\* is dropped, then a fresh instance and one more start()
retry(s, o2) ==
  LET dropped(s1, r) == [s1 EXCEPT !.recs[r] = BlankRec, !.refs.rec = NoRec]
      fresh(s2) ==
        IF NextFree(s2) = NoRec THEN [s2 EXCEPT !.ovf = TRUE]
        ELSE tryStart(newRec(s2, NextFree(s2)), o2)
  IN fresh(dropped(Invoke(s, s.refs.rec, "abort"), s.refs.rec))

engineStart_KeepsPrevious(s, o1, o2) ==
  LET started(s2) == IF o1 = "ok" THEN s2 ELSE retry(s2, o2)
      armed(s1) ==
        IF NextFree(s1) = NoRec THEN [s1 EXCEPT !.ovf = TRUE]
        ELSE started(tryStart([newRec(s1, NextFree(s1)) EXCEPT !.refs.watchdog = TRUE],
                              o1))
  IN armed(s)

\* start(h)
engineStart(s, o1, o2) ==
  LET started(s2) == IF o1 = "ok" THEN s2 ELSE retry(s2, o2)
      armed(s1) ==
        IF NextFree(s1) = NoRec THEN [s1 EXCEPT !.ovf = TRUE]
        ELSE started(tryStart([newRec(s1, NextFree(s1)) EXCEPT !.refs.watchdog = TRUE],
                              o1))
  IN armed(abortAndStop(s))

\* stop()
engineStop(s) ==
  LET cleared(s1) == IF s1.refs.rec = NoRec THEN s1 ELSE Invoke(s1, s1.refs.rec, "stop")
  IN cleared(clearWatchdog(s))

\* dispose()
engineDispose(s) == [abortAndStop(clearWatchdog(s)) EXCEPT !.refs.rec = NoRec]

\* the watchdog's timer callback
watchdog(s) == abortAndStop([s EXCEPT !.refs.watchdog = FALSE])

\* r.onstart, r.onerror, r.onend set by attach
legacyOnstart(s, r) == Note(clearWatchdog(s), "h.onStart", r, "")

legacyOnerror(s, r, error) == Note(clearWatchdog(s), "h.onError", r, error)

legacyOnend(s, r) == Note(clearWatchdog(s), "h.onEnd", r, "")

\* r.onresult: every entry of the batch is read, finals and interims apart
legacyOnresult(s, r, ev) ==
  LET len == Len(ev.results)
      finalText == Concat(ev.results, 0, len, TRUE)
      interimText == Concat(ev.results, 0, len, FALSE)
      partial(s1) == IF interimText # <<>> THEN Note(s1, "h.onPartial", r, "") ELSE s1
      final(s2) == IF finalText # <<>> THEN Note(s2, "h.onFinal", r, "") ELSE s2
  IN final(partial(s))

LegacyStart ==
  /\ ~refs.mounted
  /\ \E o1, o2 \in StartOutcomes :
       /\ o1 = "ok" => o2 = "ok"
       /\ Commit("engineStart", NoRec, o1, engineStart(Begin("ok"), o1, o2))

LegacyStop ==
  /\ ~refs.mounted
  /\ Commit("engineStop", NoRec, "", engineStop(Begin("ok")))

LegacyDispose ==
  /\ ~refs.mounted
  /\ Commit("engineDispose", NoRec, "", engineDispose(Begin("ok")))

WatchdogFires ==
  /\ refs.watchdog
  /\ Commit("watchdog", NoRec, "", watchdog(Begin("ok")))

LegacySRStart ==
  \E r \in Recs :
    /\ recs[r].rs = "started"
    /\ Commit("onstart", r, "",
              legacyOnstart([Begin("ok") EXCEPT !.recs[r].rs = "running"], r))

LegacySRError ==
  \E r \in Recs, c \in ErrorCodes :
    /\ recs[r].rs \in {"started", "running", "stopping"}
    /\ Commit("onerror", r, c,
              legacyOnerror([Begin("ok") EXCEPT
                               !.recs[r].rs = IF @ = "started" THEN "failed" ELSE @],
                            r, c))

LegacySREnd ==
  \E r \in Recs :
    /\ recs[r].rs \in {"started", "running", "failed", "stopping"}
    /\ Commit("onend", r, "",
              legacyOnend([Begin("ok") EXCEPT !.recs[r].rs = "ended"], r))

LegacySRResult ==
  \E r \in Recs, b \in Batches :
    /\ recs[r].rs \in {"running", "stopping"}
    /\ Commit("onresult", r, "", legacyOnresult(Begin("ok"), r, [results |-> b]))

InitLegacy ==
  /\ store = DefaultStore("en-GB", FALSE, FALSE)
  /\ eng = EngineInit
  /\ refs = [rec |-> NoRec, watchdog |-> FALSE, mounted |-> FALSE]
  /\ recs = [r \in Recs |-> BlankRec]
  /\ waits = {}
  /\ log = <<>>
  /\ job = [op |-> "create", r |-> NoRec, x |-> "", held |-> NoRec, want |-> FALSE,
            listening |-> FALSE]

NextLegacy ==
  \/ LegacyStart
  \/ LegacyStop
  \/ LegacyDispose
  \/ WatchdogFires
  \/ LegacySRStart
  \/ LegacySRError
  \/ LegacySREnd
  \/ LegacySRResult

SpecLegacy == InitLegacy /\ [][NextLegacy]_vars

\* ------------------------------------------------------------------ stopAndWaitGeneric on its own
\* a caller other than the engine (the utility is exported) holds the targets,
\* calls stopAndWaitGeneric on them and keeps the promises; the targets emit
\* end and error events at any time and carry no engine handlers
onabort(s, w) ==
  finish([s EXCEPT !.waits = (@ \ {w}) \cup {[w EXCEPT !.sig = FALSE]}],
         [w EXCEPT !.sig = FALSE], "timeout")

CommitWait(op, r, x, s) ==
  Record(RunConts(RunStops([s EXCEPT !.hdr = Header(op, r, x)])))

\* the calls made so far: every call takes the next token of its target
RECURSIVE Issued(_)
Issued(n) == IF n = 0 THEN 0 ELSE recs[n].tok + Issued(n - 1)

callStopAndWait ==
  \E r \in Recs, m \in Modes, g \in Signals, th \in BOOLEAN, ath \in BOOLEAN :
    /\ recs[r].rs # "none"
    /\ Issued(MaxRec) < MaxCalls
    /\ CommitWait("call", r, m,
                  stopAndWaitGeneric([Begin("ok") EXCEPT !.thr = th, !.athr = ath],
                                     r, "caller", m, g))

targetEnd ==
  \E r \in Recs :
    /\ recs[r].rs # "none"
    /\ CommitWait("end", r, "", Finish(Begin("ok"), r, "end"))

targetError ==
  \E r \in Recs :
    /\ recs[r].rs # "none"
    /\ CommitWait("error", r, "", Finish(Begin("ok"), r, "error"))

timerOf(r, k) ==
  \E w \in waits :
    /\ w.t = r
    /\ w.tok = k
    /\ CommitWait("timeout", r, "", timer(Begin("ok"), w))

timerFires == \E r \in Recs, k \in 1..MaxCalls : timerOf(r, k)

signalAbort ==
  \E w \in waits :
    /\ w.sig
    /\ CommitWait("abort", w.t, "", onabort(Begin("ok"), w))

InitWait ==
  /\ store = DefaultStore("en-GB", FALSE, FALSE)
  /\ eng = EngineInit
  /\ refs = [rec |-> NoRec, disposed |-> FALSE, subscribed |-> TRUE,
             cfgScheduled |-> FALSE, mounted |-> TRUE]
  /\ recs = [r \in Recs |-> [BlankRec EXCEPT !.rs = "new"]]
  /\ waits = {}
  /\ log = <<>>
  /\ job = [op |-> "mount", r |-> NoRec, x |-> "", held |-> NoRec, want |-> FALSE,
            listening |-> FALSE]

NextWait ==
  \/ callStopAndWait
  \/ targetEnd
  \/ targetError
  \/ timerFires
  \/ signalAbort

SpecWait == InitWait /\ [][NextWait]_vars

\* a timer that was armed and not cleared fires
LiveWait ==
  /\ InitWait
  /\ [][NextWait]_vars
  /\ \A r \in Recs, k \in 1..MaxCalls : WF_vars(timerOf(r, k))

\* ------------------------------------------------------------------ properties
\* the events of kind k that the last job logged
Calls(k) == {i \in DOMAIN log : log[i].k = k}

\* start() was called on r, no end event was received and no teardown wait
\* on it has resolved
Active(r) ==
  /\ recs[r].rs \in {"started", "running"}
  /\ recs[r].tok = 0 \/ \E w \in waits : w.t = r /\ w.tok = recs[r].tok

\* C1: in every reachable state at most one recognizer is active, also when
\* wantListening goes false and true again while the old one winds down
C1_AtMostOneActive == Cardinality({r \in Recs : Active(r)}) <= 1

\* C2: the held reference names at most one recognizer, and a start request
\* that arrives while a recognizer is held constructs and starts no recognizer
C2_StartWhileHeld ==
  /\ refs.rec \in Recs \cup {NoRec}
  /\ (job.op = "start" /\ job.held # NoRec)
       => \A i \in DOMAIN log : log[i].k \notin {"new", "start"}

\* C2 witness: wantListening went from false to true with a recognizer held,
\* not muted and permission not denied, and the same recognizer is still held
C2_HeldStartReached ==
  /\ job.op = "start"
  /\ job.held # NoRec
  /\ ~job.want
  /\ store.want
  /\ ~store.muted
  /\ store.permission # "denied"
  /\ refs.rec = job.held

\* C3: when recognizer A's teardown is pending, B is held and has acknowledged
\* its start, the late end event of A leaves listening true and the session
\* fields describing B's session
C3_StaleEndKeepsState ==
  [][(/\ job'.op = "onend"
      /\ job'.r # job'.held
      /\ refs.rec # NoRec
      /\ recs[refs.rec].rs = "running"
      /\ eng.sessionId = refs.rec
      /\ store.listening
      /\ \E a \in Recs :
           /\ a # refs.rec
           /\ recs[a].rs \in {"started", "running"}
           /\ \E w \in waits : w.t = a /\ w.tok = recs[a].tok)
     => /\ store'.listening
        /\ eng'.sessionId = refs'.rec
        /\ eng'.endedAt = eng.endedAt]_vars

\* C4: listening is true only while exactly one recognizer has acknowledged
\* its start and not yet emitted its end event
C4_ListeningOneSession ==
  store.listening => Cardinality({r \in Recs : recs[r].rs = "running"}) = 1

\* C5: when muted becomes true while listening is true, the engine's reaction
\* stops the recognizer (a teardown is begun in that pass) or listening is false
\* after it, whatever wantListening was
C5_MuteStopsListening ==
  (job.op = "mute" /\ job.x = "muted" /\ job.listening)
    => (~store.listening \/ Calls("stopAndWait") # {})

\* C6: start() is never called on a recognizer while permission is denied
C6_NoStartWhileDenied ==
  \A i \in Calls("start") : log[i].perm # "denied"

\* C7 as stated: every resumption after the teardown wait of a recognizer whose
\* start() threw makes exactly one retry
C7_AlwaysOneRetry ==
  \A i \in Calls("resume") : Cardinality({j \in Calls("start") : j > i}) = 1

\* C7 amended: a first start() that throws is recorded and leaves exactly one
\* pending recovery wait on the failed instance; when that wait resolves the
\* engine makes no start if it was disposed meanwhile, and otherwise exactly one
\* start, on an instance constructed in that continuation; if that start throws
\* as well it is recorded as lastError and neither a further start nor a further
\* recovery follows
C7_RetryOnce ==
  /\ \A i \in Calls("start") :
       (job.op \notin {"onend", "onerror", "timeout"} /\ log[i].x # "ok")
         => /\ Cardinality(Calls("start")) = 1
            /\ store.lastError = StringOf(log[i].x)
            /\ Cardinality({w \in waits : w.t = log[i].r /\ w.owner = "recovery"
                                           /\ w.tok = recs[w.t].tok}) = 1
  /\ Cardinality(Calls("resume")) <= 1
  /\ \A i \in Calls("resume") :
       IF refs.disposed THEN Calls("start") = {}
       ELSE /\ Cardinality(Calls("start")) = 1
            /\ \A j \in Calls("start") :
                 /\ j > i
                 /\ \E n \in Calls("new") : i < n /\ n < j /\ log[n].r = log[j].r
                 /\ log[j].x # "ok"
                      => /\ store.lastError = StringOf(log[j].x)
                         /\ \A k \in Calls("stopAndWait") : k < i

\* C7 witness: the retry on the fresh instance threw as well
C7_SecondThrowReached ==
  /\ ~refs.disposed
  /\ \E i \in Calls("resume") : \E j \in Calls("start") : j > i /\ log[j].x # "ok"

\* C8 as stated: with continuous true, the end event of the held recognizer
\* while wantListening is true triggers exactly one start() call
C8_AlwaysRestart ==
  (job.op = "onend" /\ store.continuous /\ job.want /\ job.held = job.r)
    => Cardinality(Calls("start")) = 1

\* C8 amended: the end event of a recognizer triggers exactly one start() call,
\* on the same instance, when continuous and wantListening are true, the
\* instance is the held one and the engine is not disposed; in every other case
\* it triggers none
C8_RestartOnEnd ==
  job.op = "onend"
    => IF store.continuous /\ job.want /\ job.held = job.r /\ ~refs.disposed
       THEN /\ Cardinality(Calls("start")) = 1
            /\ \A i \in Calls("start") : log[i].r = job.r
       ELSE Calls("start") = {}

\* C8 witness: the held recognizer ended and was started again
C8_RestartReached ==
  /\ job.op = "onend"
  /\ store.continuous
  /\ job.want
  /\ job.held = job.r
  /\ \E i \in Calls("start") : log[i].r = job.r

\* the teardowns of a held recognizer that the last job began on a stop request
Stops == {i \in Calls("stopAndWait") : log[i].x = "want"}

\* C9: the deferred reaction to a batch of configuration changes made while
\* listening performs exactly one stop followed by exactly one start, and the
\* started recognizer carries the configuration the store holds at that time
C9_OneStopOneStart ==
  (job.op = "cfg" /\ job.listening)
    => /\ Cardinality(Stops) = 1
       /\ Cardinality(Calls("start")) = 1
       /\ \A i \in Stops : \A j \in Calls("start") :
            /\ i < j
            /\ \E n \in Calls("config") :
                 /\ log[n].r = log[j].r
                 /\ log[n].x = CfgName(store)[1] \o "/" \o CfgName(store)[3]

\* C10: a result batch that yields the same normalized interim text as the
\* previous batch of the same recognizer dispatches no EVT/PARTIAL and emits no
\* webspeech:session-partial
C10_NoDuplicatePartial ==
  (job.op = "onresult" /\ \E i \in Calls("batch") : log[i].x = "same-interim")
    => \A i \in DOMAIN log :
         /\ ~(log[i].k = "dispatch" /\ log[i].x = "EVT/PARTIAL")
         /\ ~(log[i].k = "emit" /\ log[i].x = "webspeech:session-partial")

\* C10 witness: two consecutive batches yielded the same non-empty interim text
C10_RepeatedInterimReached ==
  /\ job.op = "onresult"
  /\ \E i \in Calls("batch") : log[i].x = "same-interim"
  /\ recs[job.r].prevInterim # <<>>

\* the teardown waits that were pending before the last job began
Earlier ==
  {w \in waits : w.tok = recs[w.t].tok
                 /\ \A k \in Calls("stopAndWait") : log[k].r # w.t}

\* C11: no start() is called while a teardown wait begun earlier is still
\* pending: a start request arriving before the teardown completes waits for it
C11_NoStartDuringTeardown == Calls("start") # {} => Earlier = {}

\* C12: when wantListening becomes false while a recognizer is held, whatever
\* muted, permission and deviceId are, the engine begins the teardown of that
\* recognizer through stopAndWait and afterwards holds no recognizer
C12_StopReleases ==
  (job.want /\ ~store.want /\ job.held # NoRec)
    => /\ refs.rec = NoRec
       /\ \E i \in Calls("stopAndWait") : log[i].r = job.held

\* C13: a recognizer is constructed or started only while a device is selected
C13_NoStartWithoutDevice ==
  \A i \in Calls("new") \cup Calls("start") : log[i].dev # "null"

\* C14: the engine's reaction to muted becoming true or to deviceId becoming
\* none leaves wantListening as it was
C14_GateKeepsWant ==
  (job.want /\ ((job.op = "mute" /\ job.x = "muted")
                \/ (job.op = "device" /\ job.x = "null")))
    => store.want

\* C15: after a stop forced by deviceId becoming none (or muted becoming true)
\* while wantListening was true, selecting a device (clearing the mute) starts
\* a recognizer again without a start request from the caller
C15_GateResumes ==
  [][(/\ job.want
      /\ Calls("stopAndWait") # {}
      /\ \/ /\ job.op = "device"
            /\ job.x = "null"
            /\ job'.op = "device"
            /\ job'.x # "null"
         \/ /\ job.op = "mute"
            /\ job.x = "muted"
            /\ job'.op = "mute"
            /\ job'.x = "unmuted")
     => \E i \in DOMAIN log' : log'[i].k = "start"]_vars

\* the results that the step delivers to the promises kept on target r
Delivered(r) ==
  {i \in DOMAIN recs'[r].settled : i > Len(recs[r].settled)}

\* C16: of the waits issued for one target only the one holding the latest
\* token resolves: every result a step delivers belongs to the highest token
\* issued for the target, whatever event (end, error, abort signal, timer) fired
C16_OnlyLatestResolves ==
  [][\A r \in Recs : \A i \in Delivered(r) :
       recs'[r].settled[i].tok = recs'[r].tok]_vars

\* C16 witness: an event reached a superseded wait and was discarded while the
\* latest wait on the target is still pending
C16_StaleDiscarded ==
  /\ \E i \in Calls("discarded") : log[i].r = job.r
  /\ job.op \in {"end", "error", "abort", "timeout"}
  /\ \E w \in waits : w.t = job.r /\ w.tok = recs[job.r].tok

\* the reasons an event can give to a wait
ReasonOf(op) ==
  CASE op = "end" -> {"end"}
    [] op = "error" -> {"error"}
    [] op \in {"timeout", "abort"} -> {"timeout"}
    [] op = "call" -> {"error", "timeout"}
    [] OTHER -> {}

\* C17: a call resolves at most once, with the reason of the first of the end
\* event, the error event and the timeout to occur; later events leave the
\* results delivered so far as they are
C17_ResolvesOnce ==
  [][\A r \in Recs :
       /\ Len(recs'[r].settled) >= Len(recs[r].settled)
       /\ SubSeq(recs'[r].settled, 1, Len(recs[r].settled)) = recs[r].settled
       /\ Cardinality(Delivered(r)) <= 1
       /\ \A i \in Delivered(r) :
            /\ r = job'.r
            /\ recs'[r].settled[i].reason \in ReasonOf(job'.op)
            /\ \A j \in DOMAIN recs[r].settled :
                 recs[r].settled[j].tok # recs'[r].settled[i].tok]_vars

\* C17 witness: a call that was not superseded had resolved by timeout, and an
\* end event of the target arrived afterwards
C17_LateEventReached ==
  /\ job.op = "end"
  /\ \E i \in DOMAIN recs[job.r].settled :
       /\ recs[job.r].settled[i].tok = recs[job.r].tok
       /\ recs[job.r].settled[i].reason = "timeout"

\* C18: a pending call that no later call supersedes resolves eventually, also
\* when the target emits neither end nor error; the timer resolves it with the
\* reason "timeout"
C18_TimeoutResolves ==
  /\ \A r \in Recs, k \in 1..MaxCalls :
       (\E w \in waits : w.t = r /\ w.tok = k /\ recs[r].tok = k)
         ~> (\/ \E i \in DOMAIN recs[r].settled : recs[r].settled[i].tok = k
             \/ recs[r].tok > k)
  /\ [][job'.op = "timeout"
          => \A i \in Delivered(job'.r) :
               recs'[job'.r].settled[i].reason = "timeout"]_vars

\* C18 witness: the timer of the latest call on a target fired and resolved it
C18_TimedOutReached ==
  /\ job.op = "timeout"
  /\ \E i \in Calls("resolved") : log[i].r = job.r /\ log[i].x = "timeout"
  /\ recs[job.r].settled # <<>>
  /\ recs[job.r].settled[Len(recs[job.r].settled)] =
       [tok |-> recs[job.r].tok, reason |-> "timeout"]

\* C19: an initial start() that throws a permission-denial code sets permission
\* to denied, and the continuation of that pass, when the teardown wait of the
\* failed instance has resolved, constructs no recognizer and calls no start()
C19_DeniedStopsRetry ==
  [][(/\ job.op = "start"
      /\ \E i \in Calls("start") : IsPermissionCode(log[i].x)
      /\ Cardinality({w \in waits : w.owner = "recovery"}) = 1)
     => /\ store.permission = "denied"
        /\ (\E i \in DOMAIN log' : log'[i].k = "resume")
             => \A i \in DOMAIN log' : log'[i].k \notin {"new", "start"}]_vars

\* C20: an error event with a permission-class code sets permission to denied
\* and records the error; one with any other code records it as lastError and
\* leaves permission as it was
C20_ErrorClasses ==
  [][job'.op = "onerror"
       => /\ eng'.lastError = job'.x
          /\ (\A i \in DOMAIN log' : log'[i].k # "resume")
               => store'.lastError = job'.x
          /\ IF IsPermissionCode(job'.x)
             THEN store'.permission = "denied"
             ELSE store'.permission = store.permission]_vars

\* C20 witness: an error event with a permission-class code was handled while
\* the permission was still prompt before it
C20_FatalErrorReached ==
  /\ job.op = "onerror"
  /\ job.x = "NotAllowedError"
  /\ store.permission = "denied"
  /\ store.lastError = "NotAllowedError"
  /\ \A i \in Calls("engineDispatch") : log[i].perm = "prompt"

\* C21: with a telemetry sink that throws on every call, every engine operation
\* (start, stop, dispose, reset, a recognizer event or timer handler) returns to
\* its caller and leaves the state that it leaves with a sink that returns
C21_SinkNeverPropagates ==
  \A i \in DOMAIN log :
    log[i].k \in {"returns", "throws"} => log[i].k = "returns" /\ log[i].x = "same"

\* C22: mounting the hook with default options does not start listening:
\* wantListening is false after the mount and no recognizer was constructed or
\* started by it
C22_MountDoesNotStart ==
  (job.op = "mount" /\ job.x = "default")
    => /\ ~store.want
       /\ Calls("new") = {}
       /\ Calls("start") = {}

\* C23: in the global store REQ/START sets wantListening to true and REQ/STOP
\* sets it to false, neither changes listening, and listening is changed only
\* by EVT/START, EVT/END and EVT/ERROR
C23_RequestsLeaveListening ==
  /\ job.op = "REQ/START" => store.want /\ store.listening = job.listening
  /\ job.op = "REQ/STOP" => ~store.want /\ store.listening = job.listening
  /\ store.listening # job.listening
       => job.op \in {"EVT/START", "EVT/END", "EVT/ERROR"}

\* C23 witness: REQ/STOP was dispatched while wantListening and listening were
\* true, and listening is still true
C23_StopWhileListeningReached ==
  /\ job.op = "REQ/STOP"
  /\ job.want
  /\ job.listening
  /\ store.listening
  /\ ~store.want

\* C24: setMuted(true), called while muted is false, leaves muted true and
\* wantListening false, whatever wantListening was before (a call made while
\* muted is already true changes nothing and leaves no job)
C24_MuteClearsWant ==
  (job.op = "setMuted" /\ job.x = "muted") => store.muted /\ ~store.want

\* C24 witness: setMuted(true) was called while wantListening was true and a
\* recognizer was held
C24_MutedWhileWantedReached ==
  /\ job.op = "setMuted"
  /\ job.x = "muted"
  /\ job.want
  /\ job.held # NoRec
  /\ store.muted
  /\ ~store.want

\* the last job was a push-to-talk input
PttInput == job.op \in {"pttButton", "pttDown", "pttUp"}

\* C25: with pttEnabled true and wantListening equal to pttActive, every
\* push-to-talk input leaves wantListening equal to pttActive; in hold mode a
\* press makes both true and a release makes both false, in toggle mode a press
\* flips them and a release changes nothing
C25_WantFollowsPtt ==
  [][(PttInput' /\ store.pttEnabled /\ store.want = store.pttActive)
       => /\ store'.want = store'.pttActive
          /\ store'.pttHold = store.pttHold
          /\ LET press == job'.op = "pttDown"
                          \/ (job'.op = "pttButton"
                              /\ (job'.x = "press"
                                  \/ (job'.x = "omitted" /\ store.pttHold)))
                 release == job'.op = "pttUp"
                            \/ (job'.op = "pttButton" /\ job'.x = "release")
             IN /\ (press /\ store.pttHold) => store'.want
                /\ (release /\ store.pttHold) => ~store'.want
                /\ (press /\ ~store.pttHold) => store'.want = ~store.want
                /\ (release /\ ~store.pttHold) => store'.want = store.want]_vars

\* C25 witness: in toggle mode a press turned wantListening and pttActive off
\* again, the mode having been changed from hold to toggle before
C25_ToggledOffReached ==
  /\ job.op \in {"pttButton", "pttDown"}
  /\ job.x \in {"press", ""}
  /\ store.pttEnabled
  /\ ~store.pttHold
  /\ job.want
  /\ ~store.want
  /\ ~store.pttActive

\* C26: after dispose() the engine holds no recognizer, and a later start(),
\* made when dispose() (or the unmount) has removed the engine's subscriptions,
\* sets wantListening to true and neither constructs nor starts a recognizer
C26_DisposedStartIsInert ==
  /\ job.op = "dispose" => refs.rec = NoRec
  /\ (job.op = "start" /\ ~refs.subscribed)
       => /\ store.want
          /\ Calls("new") = {}
          /\ Calls("start") = {}

\* C26 witness: start() was called after dispose() and reset(), while the
\* recognizer that dispose() tore down has not ended yet
C26_StartAfterDisposeReached ==
  /\ job.op = "start"
  /\ ~refs.subscribed
  /\ refs.mounted
  /\ ~refs.disposed
  /\ ~job.want
  /\ store.want
  /\ \E w \in waits : w.owner \in {"dispose", "want"}

SilentHeld == refs.rec # NoRec /\ recs[refs.rec].rs = "started"

\* C28: the legacy engine's watchdog is pending for as long as the held
\* recognizer is started and silent, and when it fires it calls abort() and
\* then stop() on the held recognizer; after stop() or dispose() no watchdog
\* is pending
C28_WatchdogGuardsSilent ==
  /\ SilentHeld => refs.watchdog
  /\ (job.op = "watchdog" /\ job.held # NoRec)
       => \E a \in Calls("abort"), b \in Calls("stop") :
            log[a].r = job.held /\ log[b].r = job.held /\ a < b
  /\ job.op \in {"engineStop", "engineDispose"} => ~refs.watchdog

\* the last job processed a final transcript that resolved to an intent the
\* registry k has a handler for
Resolved(k) ==
  /\ job.op = "final"
  /\ \E i \in Calls("intent") : IndexOf(Get(refs.registry, k), log[i].x) # 0

\* the calls of the handler registered under k
Handled(k) == {i \in Calls("handler") : log[i].x = k}

\* C29: a final transcript that resolves to an intent with a registered
\* handler invokes that handler and not activate, the origin's handler before
\* the global one, and activate is invoked only when neither the origin's nor
\* the global list has a handler for the intent
C29_HandlerInsteadOfActivate ==
  /\ (refs.origin # "undefined" /\ Resolved(refs.origin))
       => /\ Cardinality(Handled(refs.origin)) = 1
          /\ Handled("*") = {}
          /\ Calls("activate") = {}
  /\ (Resolved("*") /\ ~(refs.origin # "undefined" /\ Resolved(refs.origin)))
       => /\ Cardinality(Handled("*")) = 1
          /\ Calls("activate") = {}
  /\ (job.op = "final" /\ Calls("activate") # {})
       => ~Resolved("*") /\ ~(refs.origin # "undefined" /\ Resolved(refs.origin))

\* C30: on a result batch the engine reads the entries from the greater of
\* the cursor and the batch's resultIndex onward, so the loop never begins at
\* an entry below the cursor
C30_NothingBelowCursor ==
  job.op = "onresult" => \A i \in Calls("extract") : log[i].x = "from-cursor"

\* C31: every start acknowledgement of a recognizer, that of a continuous-mode
\* restart on the same instance included, takes a new session id and leaves
\* the recognizer's cursor at 0 and its last forwarded interim and final
\* texts empty
C31_StartResetsSession ==
  job.op = "onstart"
    => /\ \E i \in Calls("newSessionId") : log[i].r = job.r
       /\ recs[job.r].cursor = 0
       /\ recs[job.r].lastInterim = <<>>
       /\ recs[job.r].lastFinal = <<>>

\* C32: whenever the engine assigns a recognizer to its held reference, the
\* reference was null immediately before: no held recognizer is overwritten
C32_HoldOnlyWhenNull ==
  \A i \in Calls("hold") : log[i].x = "null"

\* C33: the engine calls start() on a recognizer only while wantListening is
\* true, also for the fresh instance of the recovery path after the teardown
\* wait of the failed one
C33_StartOnlyWhenWanted ==
  \A i \in Calls("start") : log[i].want

\* C34: when the teardown wait that a stop request started has resolved by
\* its timer because the recognizer stayed silent, wantListening is still
\* false and no other wait is pending, listening is false
C34_ListeningEnds ==
  (/\ job.op = "timeout"
   /\ \E i \in Calls("resolved") : log[i].x = "timeout"
   /\ Calls("resume") = {}
   /\ ~store.want
   /\ waits = {})
    => ~store.listening

\* C35: the coalesced reaction to a configuration change that runs while
\* wantListening is false leaves wantListening false and starts no recognizer
C35_ConfigNeverWants ==
  (job.op = "cfg" /\ ~job.want) => (~store.want /\ Calls("start") = {})


\* the waits the engine itself starts
EngineOwners == {"want", "recovery", "dispose"}

\* C36: in every teardown path of the engine (wantListening becoming false,
\* start-failure recovery, dispose) the held reference is already null when
\* stopAndWait is invoked on the old recognizer, and while such a wait is
\* pending its target is not the recognizer the engine holds
C36_NullBeforeWait ==
  /\ \A i \in Calls("stopAndWait") :
       log[i].x \in EngineOwners => log[i].held = NoRec
  /\ \A w \in waits : w.owner \in EngineOwners => refs.rec # w.t

\* C36 witness: a start request handled while the wait of a teardown is
\* pending found no recognizer held and constructed a new one
C36_StartDuringWait ==
  /\ job.op = "start"
  /\ job.held = NoRec
  /\ Calls("hold") # {}
  /\ \E w \in waits : w.owner = "want" /\ w.t # refs.rec

\* C37: the engine passes each recognizer instance to stopAndWait at most
\* once (onWantListeningChange, startWithRecovery and dispose together), so
\* no wait of the engine is superseded by a later wait on the same target
C37_OneWaitPerInstance ==
  /\ \A r \in Recs : recs[r].tok <= 1
  /\ \A w \in waits : w.tok = recs[w.t].tok

\* C37 witness: dispose() ran while the wait of an earlier teardown was still
\* pending
C37_DisposeDuringWait ==
  /\ job.op = "dispose"
  /\ \E w \in waits : w.owner \in {"want", "recovery"} /\ w.tok = recs[w.t].tok

\* the call with token k on the target r has delivered its result
Settled(r, k) == \E i \in DOMAIN recs[r].settled : recs[r].settled[i].tok = k

\* C38: a call on a target that a later call on the same target superseded
\* while it was pending never settles afterwards, whichever of the end event,
\* the error event, the abort signal and its own timer occurs
C38_SupersededNeverSettles ==
  [][\A r \in Recs, k \in 1..MaxCalls :
       (k < recs'[r].tok /\ ~Settled(r, k)) => ~Settled(r, k)']_vars

\* C38 witness: the timer of a superseded, unsettled call has fired
C38_SupersededTimerFired ==
  /\ job.op = "timeout"
  /\ \E i \in Calls("discarded") : log[i].r = job.r /\ log[i].x = "timeout"
  /\ \E k \in 1..MaxCalls : k < recs[job.r].tok /\ ~Settled(job.r, k)

\* the calls of target methods that the last job logged
TargetCalls == Calls("abort") \cup Calls("stop")

\* C39: stopAndWaitGeneric attaches its listeners and arms its timeout before
\* it invokes any method of the target; in abort+stop mode it then invokes
\* abort() followed by stop(), also when abort() throws; in every mode stop()
\* is invoked
C39_ListenersThenAbortStop ==
  job.op = "call"
    => /\ \E a \in Calls("addEventListener"), t \in Calls("setTimeout") :
            \A m \in TargetCalls : a < m /\ t < m
       /\ Calls("stop") # {}
       /\ job.x = "abort+stop"
            => \E b \in Calls("abort") : \A p \in Calls("stop") : b < p

\* C40: the watchdog of the legacy engine is cancelled only by a start, error
\* or end event of the recognizer held at that time, by stop() or by
\* dispose() (a new start() arms it again, its own timer callback consumes
\* it); an event of a recognizer that start() replaced leaves it armed
C40_OnlyOwnEventsCancel ==
  [][(refs.watchdog /\ ~refs'.watchdog)
       => \/ job'.op \in {"engineStop", "engineDispose", "watchdog", "engineStart"}
          \/ /\ job'.op \in {"onstart", "onerror", "onend"}
             /\ job'.r = job'.held]_vars

====
